---- MODULE Spec2Model ----
(***************************************************************************)
(* A model of the calculator core of src/src/calculator.py: the handlers   *)
(* of CalcApp that turn button presses into an expression, the             *)
(* parenthesis normalizer, the evaluation of the expression and the        *)
(* formatting of its result.                                               *)
(*                                                                         *)
(* A Python str is modelled as a sequence of one-character strings, a      *)
(* Python list of str as a sequence of such sequences.                     *)
(***************************************************************************)
EXTENDS Integers, Sequences, FiniteSets, TLC

\* ------------------------------------------------------------------ bounds
\* Most events handled from the start (Spec, SpecArith).
MaxTrace == 5
\* Most events handled from the start when operators are typed and taken
\* back (SpecEdit).
MaxEditTrace == 6
\* Most events handled from the start when logarithms are taken (SpecLog).
MaxLogTrace == 5
\* Most events handled from the start when an expression with parentheses
\* is typed and evaluated (SpecParen).
MaxParenTrace == 7
\* Longest expression handed to parseParentheses on its own (SpecNormalizer).
MaxExprLen == 5
\* Largest numerator or denominator of a number the arithmetic follows.
MaxMagnitude == 9999
\* the longest integer part of a float given to roundToMaxDigits on its own
MaxIntLen == 10

\* ------------------------------------------------------- text (Python str)
DigitChars == <<"0", "1", "2", "3", "4", "5", "6", "7", "8", "9">>

Digits == {DigitChars[i] : i \in 1..10}

\* str.isnumeric() on a single character of the calculator's alphabet
IsNumeric(c) == c \in Digits

DigitValue(c) == (CHOOSE i \in 1..10 : DigitChars[i] = c) - 1

RECURSIVE Join(_)
\* ''.join(list)
Join(list) == IF list = <<>> THEN <<>> ELSE Head(list) \o Join(Tail(list))

RECURSIVE JoinSpace(_)
\* ' '.join(list)
JoinSpace(list) ==
    IF list = <<>> THEN <<>>
    ELSE IF Len(list) = 1 THEN Head(list)
    ELSE Head(list) \o <<" ">> \o JoinSpace(Tail(list))

RECURSIVE ReplacePower(_)
\* s.replace('**', '^')
ReplacePower(s) ==
    IF Len(s) < 2 THEN s
    ELSE IF s[1] = "*" /\ s[2] = "*" THEN <<"^">> \o ReplacePower(SubSeq(s, 3, Len(s)))
    ELSE <<s[1]>> \o ReplacePower(Tail(s))

\* list(s): one element per character
ListOf(s) == [i \in 1..Len(s) |-> <<s[i]>>]

RECURSIVE NatStr(_)
NatStr(n) == IF n < 10 THEN <<DigitChars[n + 1]>> ELSE NatStr(n \div 10) \o <<DigitChars[(n % 10) + 1]>>

\* str(n) of an int
IntStr(n) == IF n < 0 THEN <<"-">> \o NatStr(-n) ELSE NatStr(n)

\* ------------------------------------------------- numbers (Python values)
(***************************************************************************)
(* The value of an evaluated expression.  k is its Python type ("int",     *)
(* "float", "tuple" for the empty tuple "()") or the exception the         *)
(* evaluation raises ("ZeroDivisionError", "TypeError"); an int or float   *)
(* is the rational n/d in lowest terms.  "Unmodelled" is a value whose     *)
(* text the model cannot tell exactly (a double that only approximates     *)
(* the rational, a non-terminating decimal, a negative zero, a magnitude   *)
(* beyond MaxMagnitude, the Ellipsis): no handler is followed on it.       *)
(***************************************************************************)
IntV(n) == [k |-> "int", n |-> n, d |-> 1]

Raised(name) == [k |-> name, n |-> 0, d |-> 1]

Unmodelled == [k |-> "Unmodelled", n |-> 0, d |-> 1]

TupleV == [k |-> "tuple", n |-> 0, d |-> 1]

IsException(v) == v.k \in {"ZeroDivisionError", "TypeError", "ValueError"}

IsNumber(v) == v.k \in {"int", "float"}

Abs(n) == IF n < 0 THEN -n ELSE n

Min2(a, b) == IF a < b THEN a ELSE b

RECURSIVE GCD(_, _)
GCD(a, b) == IF b = 0 THEN a ELSE GCD(b, a % b)

RECURSIVE StripFactor(_, _)
StripFactor(d, p) == IF d % p = 0 THEN StripFactor(d \div p, p) ELSE d

\* a double holds n/d exactly (for the magnitudes followed here)
PowerOfTwo(d) == StripFactor(d, 2) = 1

\* n/d has a finite decimal expansion
Terminating(d) == StripFactor(StripFactor(d, 2), 5) = 1

MkInt(n) == IF Abs(n) > MaxMagnitude THEN Unmodelled ELSE IntV(n)

\* the float nearest to n/d (d > 0)
MkFloat(n, d) ==
    LET g == GCD(Abs(n), d)
        nn == n \div g
        dd == d \div g
    IN  IF Abs(nn) > MaxMagnitude \/ dd > MaxMagnitude \/ ~Terminating(dd) THEN Unmodelled
        \* below 0.0001 repr turns to the exponent notation
        ELSE IF nn # 0 /\ Abs(nn) * 10000 < dd THEN Unmodelled
        ELSE [k |-> "float", n |-> nn, d |-> dd]

\* the operand is the exact rational: arithmetic on it rounds once
Exact(v) == v.k = "int" \/ PowerOfTwo(v.d)

FloorDiv(x, y) == IF x >= 0 THEN x \div y ELSE -((y - 1 - x) \div y)

RECURSIVE PowMag(_, _)
\* m ** e for m, e >= 0, or a number above MaxMagnitude when it exceeds it
PowMag(m, e) ==
    IF e = 0 THEN 1
    ELSE IF m <= 1 THEN m
    ELSE IF e > 31 THEN MaxMagnitude + 1
    ELSE LET r == PowMag(m, e - 1) IN IF r > MaxMagnitude THEN r ELSE r * m

\* a ** b of two numbers
Power(a, b) ==
    LET isFloat == a.k = "float" \/ b.k = "float"
        e == Abs(b.n)
        neg == a.n < 0 /\ e % 2 = 1
        pn == PowMag(Abs(a.n), e)
        pd == PowMag(a.d, e)
        sn == IF neg THEN -pn ELSE pn
    IN  IF b.d # 1 THEN Unmodelled
        ELSE IF a.n = 0 /\ b.n < 0 THEN Raised("ZeroDivisionError")
        ELSE IF ~Exact(a) THEN Unmodelled
        ELSE IF pn > MaxMagnitude \/ pd > MaxMagnitude THEN Unmodelled
        ELSE IF b.n >= 0
             THEN IF isFloat THEN MkFloat(sn, pd) ELSE MkInt(sn)
             ELSE IF PowerOfTwo(pn) THEN MkFloat(IF neg THEN -pd ELSE pd, pn)
                  ELSE Unmodelled

\* a op b of two numbers (int or float), as CPython's int and float do it
Arith(op, a, b) ==
    LET isFloat == a.k = "float" \/ b.k = "float" IN
    IF op = "**" THEN Power(a, b)
    ELSE IF op \in {"/", "//"} /\ b.n = 0 THEN Raised("ZeroDivisionError")
    ELSE IF (isFloat \/ op = "/") /\ ~(Exact(a) /\ Exact(b)) THEN Unmodelled
    ELSE IF op = "+" THEN
        IF isFloat THEN MkFloat(a.n * b.d + b.n * a.d, a.d * b.d) ELSE MkInt(a.n + b.n)
    ELSE IF op = "-" THEN
        IF isFloat THEN MkFloat(a.n * b.d - b.n * a.d, a.d * b.d) ELSE MkInt(a.n - b.n)
    ELSE IF op = "*" THEN
        IF ~isFloat THEN MkInt(a.n * b.n)
        ELSE IF a.n * b.n = 0 /\ (a.n < 0 \/ b.n < 0) THEN Unmodelled
        ELSE MkFloat(a.n * b.n, a.d * b.d)
    ELSE IF op = "/" THEN
        IF a.n = 0 /\ b.n < 0 THEN Unmodelled
        ELSE IF b.n < 0 THEN MkFloat(-(a.n * b.d), a.d * (-b.n))
        ELSE MkFloat(a.n * b.d, a.d * b.n)
    ELSE \* "//"
        LET x == IF b.n < 0 THEN -(a.n * b.d) ELSE a.n * b.d
            y == a.d * Abs(b.n)
            q == FloorDiv(x, y)
        IN  IF ~isFloat THEN MkInt(q)
            ELSE IF a.n = 0 /\ b.n < 0 THEN Unmodelled
            ELSE MkFloat(q, 1)

\* a op b of two evaluated operands: the left one is evaluated first
BinOp(op, a, b) ==
    IF IsException(a) THEN a
    ELSE IF a.k = "Unmodelled" THEN Unmodelled
    ELSE IF IsException(b) THEN b
    ELSE IF b.k = "Unmodelled" THEN Unmodelled
    ELSE IF a.k = "tuple" /\ b.k = "tuple" THEN
        IF op = "+" THEN TupleV ELSE Raised("TypeError")
    ELSE IF a.k = "tuple" \/ b.k = "tuple" THEN
        IF op = "*" /\ (a.k = "int" \/ b.k = "int") THEN TupleV ELSE Raised("TypeError")
    ELSE Arith(op, a, b)

\* +a or -a
UnaryOp(op, a) ==
    IF IsException(a) \/ a.k = "Unmodelled" THEN a
    ELSE IF a.k = "tuple" THEN Raised("TypeError")
    ELSE IF op = "+" THEN a
    ELSE IF a.k = "float" /\ a.n = 0 THEN Unmodelled
    ELSE [a EXCEPT !.n = -a.n]

\* callee(argument): no value of the grammar is callable
CallOp(callee, arg) ==
    IF IsException(callee) THEN callee
    ELSE IF callee.k = "Unmodelled" THEN Unmodelled
    ELSE IF IsException(arg) THEN arg
    ELSE IF arg.k = "Unmodelled" THEN Unmodelled
    ELSE Raised("TypeError")

RECURSIVE FracDigits(_, _)
\* the decimal digits of r/d (0 <= r < d, d terminating)
FracDigits(r, d) ==
    IF r = 0 THEN <<>>
    ELSE <<DigitChars[((r * 10) \div d) + 1]>> \o FracDigits((r * 10) % d, d)

\* str(x) of a float: repr gives the shortest text that reads back as x
FloatStr(v) ==
    LET m == Abs(v.n)
        frac == FracDigits(m % v.d, v.d)
    IN  (IF v.n < 0 THEN <<"-">> ELSE <<>>) \o NatStr(m \div v.d) \o <<".">>
        \o (IF frac = <<>> THEN <<"0">> ELSE frac)

\* str(x) of a result of eval
ValueStr(v) ==
    IF v.k = "int" THEN IntStr(v.n)
    ELSE IF v.k = "float" THEN FloatStr(v)
    ELSE <<"(", ")">>

\* ------------------------------------------------------ eval(expression)
(***************************************************************************)
(* eval() on the text the calculator builds: Python's expression grammar   *)
(* over number literals, + - * / // **, unary + and -, parentheses, the    *)
(* empty tuple and the call trailer.  Tokens are [t, s, v]: t is "num"     *)
(* (v its value), "op" (s its text) or "bad" (no Python token sequence).   *)
(***************************************************************************)
RECURSIVE DigitsEnd(_, _)
\* the first position from i on that holds no digit
DigitsEnd(s, i) == IF i <= Len(s) /\ IsNumeric(s[i]) THEN DigitsEnd(s, i + 1) ELSE i

RECURSIVE DigitsValue(_)
DigitsValue(ds) ==
    IF ds = <<>> THEN 0
    ELSE DigitsValue(SubSeq(ds, 1, Len(ds) - 1)) * 10 + DigitValue(ds[Len(ds)])

RECURSIVE TenTo(_)
TenTo(k) == IF k = 0 THEN 1 ELSE 10 * TenTo(k - 1)

\* where the number literal starting at i ends (the first position after it)
NumberEnd(s, i) ==
    LET j == DigitsEnd(s, i) IN
    IF j <= Len(s) /\ s[j] = "." THEN DigitsEnd(s, j + 1) ELSE j

\* the token of the literal s[i..j-1], which starts with a digit or "."
NumberToken(s, i, j) ==
    LET k == DigitsEnd(s, i)
        intPart == SubSeq(s, i, k - 1)
        hasDot == k < j
        fracPart == SubSeq(s, k + 1, j - 1)
        nDigits == Len(intPart) + Len(fracPart)
    IN  IF nDigits = 0 THEN [t |-> "bad", s |-> ".", v |-> Unmodelled]
        ELSE IF ~hasDot /\ Len(intPart) > 1 /\ intPart[1] = "0"
                /\ \E x \in 1..Len(intPart) : intPart[x] # "0"
             THEN [t |-> "bad", s |-> "0", v |-> Unmodelled]
        ELSE IF nDigits > 9 THEN [t |-> "num", s |-> "", v |-> Unmodelled]
        ELSE IF ~hasDot THEN [t |-> "num", s |-> "", v |-> MkInt(DigitsValue(intPart))]
        ELSE [t |-> "num", s |-> "",
              v |-> MkFloat(DigitsValue(intPart \o fracPart), TenTo(Len(fracPart)))]

OpToken(text) == [t |-> "op", s |-> text, v |-> Unmodelled]

RECURSIVE Tokenize(_, _)
\* the tokens of s from position i on
Tokenize(s, i) ==
    IF i > Len(s) THEN <<>>
    ELSE IF s[i] = "." /\ i + 2 <= Len(s) /\ s[i + 1] = "." /\ s[i + 2] = "." THEN
        \* "..." is the Ellipsis object: a value the model does not follow
        <<[t |-> "num", s |-> "...", v |-> Unmodelled]>> \o Tokenize(s, i + 3)
    ELSE IF IsNumeric(s[i]) \/ s[i] = "." THEN
        LET j == NumberEnd(s, i) IN <<NumberToken(s, i, j)>> \o Tokenize(s, j)
    ELSE IF s[i] \in {"*", "/"} /\ i < Len(s) /\ s[i + 1] = s[i] THEN
        <<OpToken(IF s[i] = "*" THEN "**" ELSE "//")>> \o Tokenize(s, i + 2)
    ELSE IF s[i] \in {"+", "-", "*", "/", "(", ")"} THEN
        <<OpToken(s[i])>> \o Tokenize(s, i + 1)
    ELSE <<[t |-> "bad", s |-> s[i], v |-> Unmodelled]>> \o Tokenize(s, i + 1)

IsOp(ts, i, ops) == i <= Len(ts) /\ ts[i].t = "op" /\ ts[i].s \in ops

\* a parse result: ok (no syntax error so far), the value, the next position
Parsed(v, i) == [ok |-> TRUE, v |-> v, i |-> i]

NoParse == [ok |-> FALSE, v |-> Unmodelled, i |-> 0]

RECURSIVE ParseSum(_, _), SumTail(_, _, _), ParseTerm(_, _), TermTail(_, _, _)
RECURSIVE ParseFactor(_, _), ParsePower(_, _), ParsePrimary(_, _), Trailers(_, _, _)
RECURSIVE ParseAtom(_, _)

\* "(" sum ")": the sum r has been parsed, the ")" is due
Parenthesized(ts, r) ==
    IF r.ok /\ IsOp(ts, r.i, {")"}) THEN Parsed(r.v, r.i + 1) ELSE NoParse

\* atom: NUMBER | "(" ")" | "(" sum ")"
ParseAtom(ts, i) ==
    IF i > Len(ts) THEN NoParse
    ELSE IF ts[i].t = "num" THEN Parsed(ts[i].v, i + 1)
    ELSE IF IsOp(ts, i, {"("}) THEN
        IF IsOp(ts, i + 1, {")"}) THEN Parsed(TupleV, i + 2)
        ELSE Parenthesized(ts, ParseSum(ts, i + 1))
    ELSE NoParse

\* a call trailer whose argument r has been parsed: the ")" is due, then
\* more trailers
Called(ts, callee, r) ==
    IF r.ok /\ IsOp(ts, r.i, {")"}) THEN Trailers(ts, CallOp(callee, r.v), r.i + 1)
    ELSE NoParse

\* trailers: ( "(" [ ["*" | "**"] sum ] ")" )*
Trailers(ts, callee, i) ==
    IF ~IsOp(ts, i, {"("}) THEN Parsed(callee, i)
    ELSE IF IsOp(ts, i + 1, {")"}) THEN Trailers(ts, CallOp(callee, TupleV), i + 2)
    ELSE Called(ts, callee,
                ParseSum(ts, IF IsOp(ts, i + 1, {"*", "**"}) THEN i + 2 ELSE i + 1))

\* the trailers of the parsed atom a
AtomTrailers(ts, a) == IF a.ok THEN Trailers(ts, a.v, a.i) ELSE NoParse

\* primary: atom trailers
ParsePrimary(ts, i) == AtomTrailers(ts, ParseAtom(ts, i))

\* the parsed operand r applied to the value acc by the operator op
Operated(op, acc, r) == IF r.ok THEN Parsed(BinOp(op, acc, r.v), r.i) ELSE NoParse

\* [ "**" factor ] after the parsed primary p
Exponent(ts, p) ==
    IF ~p.ok THEN NoParse
    ELSE IF IsOp(ts, p.i, {"**"}) THEN Operated("**", p.v, ParseFactor(ts, p.i + 1))
    ELSE p

\* power: primary [ "**" factor ]
ParsePower(ts, i) == Exponent(ts, ParsePrimary(ts, i))

\* the sign op on the parsed factor r
Signed(op, r) == IF r.ok THEN Parsed(UnaryOp(op, r.v), r.i) ELSE NoParse

\* factor: ("+" | "-") factor | power
ParseFactor(ts, i) ==
    IF IsOp(ts, i, {"+", "-"}) THEN Signed(ts[i].s, ParseFactor(ts, i + 1))
    ELSE ParsePower(ts, i)

\* the rest of a term after the parsed operation r
TermRest(ts, r) == IF r.ok THEN TermTail(ts, r.v, r.i) ELSE NoParse

TermTail(ts, acc, i) ==
    IF IsOp(ts, i, {"*", "/", "//"})
    THEN TermRest(ts, Operated(ts[i].s, acc, ParseFactor(ts, i + 1)))
    ELSE Parsed(acc, i)

\* term: factor (("*" | "/" | "//") factor)*
ParseTerm(ts, i) == TermRest(ts, ParseFactor(ts, i))

\* the rest of a sum after the parsed operation r
SumRest(ts, r) == IF r.ok THEN SumTail(ts, r.v, r.i) ELSE NoParse

SumTail(ts, acc, i) ==
    IF IsOp(ts, i, {"+", "-"})
    THEN SumRest(ts, Operated(ts[i].s, acc, ParseTerm(ts, i + 1)))
    ELSE Parsed(acc, i)

\* sum: term (("+" | "-") term)*
ParseSum(ts, i) == SumRest(ts, ParseTerm(ts, i))

\* the value of the parse r of all the tokens ts
Whole(ts, r) == IF r.ok /\ r.i = Len(ts) + 1 THEN r.v ELSE Raised("SyntaxError")

\* how many of the first i tokens are the parenthesis p
ParenthCount(ts, i, p) == Cardinality({j \in 1..i : IsOp(ts, j, {p})})

\* the tokenizer's own check: no ")" without its "(", no "(" left open
Balanced(ts) ==
    /\ \A i \in 1..Len(ts) : ParenthCount(ts, i, ")") <= ParenthCount(ts, i, "(")
    /\ ParenthCount(ts, Len(ts), ")") = ParenthCount(ts, Len(ts), "(")

\* the value of the tokens ts
EvalTokens(ts) ==
    IF \E i \in 1..Len(ts) : ts[i].t = "bad" THEN Raised("SyntaxError")
    ELSE IF ~Balanced(ts) THEN Raised("SyntaxError")
    ELSE Whole(ts, ParseSum(ts, 1))

\* eval(s): the value, or the exception raised
Eval(s) == EvalTokens(Tokenize(s, 1))

\* ------------------------------------------------------- parseParentheses
\* [pos for pos, char in enumerate(s) if char is parenth], positions from 1
ParenthPositions(s, parenth) ==
    LET P == {i \in 1..Len(s) : s[i] = parenth}
        RECURSIVE Sorted(_)
        Sorted(Q) ==
            IF Q = {} THEN <<>>
            ELSE LET m == CHOOSE x \in Q : \A y \in Q : x <= y IN <<m>> \o Sorted(Q \ {m})
    IN  Sorted(P)

RECURSIVE ParenthPassLeftOnly(_, _, _, _)
\* the inner for loop without the test of the character to the right of the
\* parenthesis (a changed ParenthPass)
ParenthPassLeftOnly(s, isLeft, parenthPosList, innerIndex) ==
    IF innerIndex > Len(parenthPosList) THEN s
    ELSE
        LET parenthPos == parenthPosList[innerIndex]
            insert == parenthPos > 1 /\ IsNumeric(s[parenthPos - 1])
            posAdjustment == IF isLeft = 1 THEN 0 ELSE 1
            slice == (parenthPos - 1) + posAdjustment
        IN  IF insert
            THEN ParenthPassLeftOnly(
                     SubSeq(s, 1, slice) \o <<"*">> \o SubSeq(s, slice + 1, Len(s)),
                     isLeft,
                     [i \in 1..Len(parenthPosList) |-> parenthPosList[i] + 1],
                     innerIndex + 1)
            ELSE ParenthPassLeftOnly(s, isLeft, parenthPosList, innerIndex + 1)

RECURSIVE ParenthPass(_, _, _, _)
\* the inner for loop from element innerIndex of parenthPosList on; isLeft is
\* the pass (0 or 1).  A "*" goes in when the characters on both sides of
\* the parenthesis are numeric, and every index of the list is then shifted.
ParenthPass(s, isLeft, parenthPosList, innerIndex) ==
    IF innerIndex > Len(parenthPosList) THEN s
    ELSE
        LET parenthPos == parenthPosList[innerIndex]
            insert == /\ parenthPos > 1
                      /\ IsNumeric(s[parenthPos - 1])
                      /\ parenthPos # Len(s)
                      /\ IsNumeric(s[parenthPos + 1])
            posAdjustment == IF isLeft = 1 THEN 0 ELSE 1
            slice == (parenthPos - 1) + posAdjustment
        IN  IF insert
            THEN ParenthPass(SubSeq(s, 1, slice) \o <<"*">> \o SubSeq(s, slice + 1, Len(s)),
                             isLeft,
                             [i \in 1..Len(parenthPosList) |-> parenthPosList[i] + 1],
                             innerIndex + 1)
            ELSE ParenthPass(s, isLeft, parenthPosList, innerIndex + 1)

\* one turn of the outer while loop: pass 0 looks at ")", pass 1 at "("
ParenthOuter(s, isLeft) ==
    ParenthPass(s, isLeft, ParenthPositions(s, IF isLeft = 1 THEN "(" ELSE ")"), 1)

parseParentheses(currentCumulativeOperation) ==
    ParenthOuter(ParenthOuter(currentCumulativeOperation, 0), 1)

\* ------------------------------------------------------- roundToMaxDigits
RECURSIVE FixedDigits(_, _, _)
\* the first p decimal digits of r/d and the remainder left after them
FixedDigits(r, d, p) ==
    IF p = 0 THEN [ds |-> <<>>, r |-> r]
    ELSE LET rest == FixedDigits((r * 10) % d, d, p - 1) IN
         [ds |-> <<DigitChars[((r * 10) \div d) + 1]>> \o rest.ds, r |-> rest.r]

RECURSIVE Increment(_)
\* a digit string plus one (it grows by a digit when all are 9)
Increment(ds) ==
    IF ds = <<>> THEN <<"1">>
    ELSE LET last == ds[Len(ds)]
             front == SubSeq(ds, 1, Len(ds) - 1)
         IN  IF last = "9" THEN Increment(front) \o <<"0">>
             ELSE front \o <<DigitChars[DigitValue(last) + 2]>>

\* '{:.{precision}f}'.format(x, precision = p) of a float x: the decimal
\* nearest to the double, [k |-> "str", s |-> its text]
FormatFixed(v, p) ==
    IF p < 0 THEN [k |-> "ValueError", s |-> <<>>]
    ELSE
        LET m == Abs(v.n)
            ip == NatStr(m \div v.d)
            fd == FixedDigits(m % v.d, v.d, p)
            all == ip \o fd.ds
            tie == 2 * fd.r = v.d
            odd == DigitValue(all[Len(all)]) % 2 = 1
            up == 2 * fd.r > v.d \/ (tie /\ odd)
            digits == IF up THEN Increment(all) ELSE all
            cut == Len(digits) - p
        IN  IF tie /\ ~PowerOfTwo(v.d) THEN [k |-> "Unmodelled", s |-> <<>>]
            ELSE [k |-> "str",
                  s |-> (IF v.n < 0 THEN <<"-">> ELSE <<>>) \o SubSeq(digits, 1, cut)
                        \o (IF p = 0 THEN <<>> ELSE <<".">> \o SubSeq(digits, cut + 1, Len(digits)))]

\* str(int(x)) of a float: int() cuts the fraction off, towards zero
TruncStr(v) ==
    LET q == Abs(v.n) \div v.d IN IF v.n < 0 /\ q > 0 THEN <<"-">> \o NatStr(q) ELSE NatStr(q)

\* A float known by the text of its repr (a logarithm):
\* [k |-> "double", s |-> the text]
Double(text) == [k |-> "double", n |-> 0, d |-> 1, s |-> text]

\* where the "." of the text of a float stands
PointAt(text) == CHOOSE i \in 1..Len(text) : text[i] = "."

\* an integer part that takes none of the nine characters (a changed
\* TruncText)
TruncTextNone(text) == <<>>

\* str(int(x)) of the float with the repr text: the fraction is cut off, and
\* a zero has no sign
TruncText(text) ==
    IF SubSeq(text, 1, PointAt(text) - 1) = <<"-", "0">> THEN <<"0">>
    ELSE SubSeq(text, 1, PointAt(text) - 1)

\* n zeros
Zeros(n) == [i \in 1..n |-> "0"]

\* the digits ds with their last p as the fraction, after the sign
Pointed(sign, ds, p) ==
    [k |-> "str",
     s |-> sign \o SubSeq(ds, 1, Len(ds) - p)
           \o (IF p = 0 THEN <<>> ELSE <<".">> \o SubSeq(ds, Len(ds) - p + 1, Len(ds)))]

\* '{:.{precision}f}'.format(x, precision = p) of the float with the repr
\* text: the digits dropped decide the rounding; dropped digits that are a
\* lone "5" do not tell on which side of the tie the float is
FormatText(text, p) ==
    LET neg == text[1] = "-"
        ip == SubSeq(text, IF neg THEN 2 ELSE 1, PointAt(text) - 1)
        frac == SubSeq(text, PointAt(text) + 1, Len(text))
        kept == IF Len(frac) >= p THEN SubSeq(frac, 1, p) ELSE frac \o Zeros(p - Len(frac))
        dropped == IF Len(frac) > p THEN SubSeq(frac, p + 1, Len(frac)) ELSE <<>>
        up == dropped # <<>> /\ DigitValue(dropped[1]) >= 5
    IN  IF p < 0 THEN [k |-> "ValueError", s |-> <<>>]
        ELSE IF dropped = <<"5">> THEN [k |-> "Unmodelled", s |-> <<>>]
        ELSE Pointed(IF neg THEN <<"-">> ELSE <<>>,
                     IF up THEN Increment(ip \o kept) ELSE ip \o kept, p)

\* roundToMaxDigits(currentResult): [k, s], k the type of what it returns
\* ("int", "float", "str", "tuple") or the exception raised, s its text
roundToMaxDigits(currentResult) ==
    IF currentResult.k = "float" THEN
        IF currentResult.d = 1 THEN [k |-> "int", s |-> IntStr(currentResult.n)]
        ELSE LET numDigits == Len(FloatStr(currentResult)) IN
             IF numDigits > 9
             THEN FormatFixed(currentResult, 9 - Len(TruncStr(currentResult)))
             ELSE [k |-> "float", s |-> FloatStr(currentResult)]
    ELSE IF currentResult.k = "double" THEN
        IF Len(currentResult.s) > 9
        THEN FormatText(currentResult.s, 9 - Len(TruncText(currentResult.s)))
        ELSE [k |-> "float", s |-> currentResult.s]
    ELSE [k |-> currentResult.k, s |-> ValueStr(currentResult)]

\* ------------------------------------------------------------ CalcApp data
VARIABLES
    cumulativeInputDisplayString,       \* text of the input display
    cumulativeOperationDisplayString,   \* text of the operation display
    cumulativeNumInputList,             \* the number being typed, a list of str
    lastCumulativeNumInputList,         \* its copy taken at the last operator
    cumulativeOperationList,            \* the committed expression, a list of str
    lastInputWasNum,
    lastOperationWasEval,
    skipAddingLastNumInputToOperation,
    uncaught,   \* the exception that escaped the last handler, or "none"
    trace,      \* the events handled since the start, oldest first
    call        \* a function applied on its own: [f, arg, done, ret]

data == <<cumulativeInputDisplayString, cumulativeOperationDisplayString,
          cumulativeNumInputList, lastCumulativeNumInputList, cumulativeOperationList,
          lastInputWasNum, lastOperationWasEval, skipAddingLastNumInputToOperation>>

vars == <<data, uncaught, trace, call>>

\* The fields of the app as one record; exc is the exception a handler lets
\* escape ("none" when it returns), "Unmodelled" when the model cannot follow it.
Fields ==
    [cumulativeInputDisplayString |-> cumulativeInputDisplayString,
     cumulativeOperationDisplayString |-> cumulativeOperationDisplayString,
     cumulativeNumInputList |-> cumulativeNumInputList,
     lastCumulativeNumInputList |-> lastCumulativeNumInputList,
     cumulativeOperationList |-> cumulativeOperationList,
     lastInputWasNum |-> lastInputWasNum,
     lastOperationWasEval |-> lastOperationWasEval,
     skipAddingLastNumInputToOperation |-> skipAddingLastNumInputToOperation,
     exc |-> "none"]

\* CalcApp.__init__, the "data" and "data flags" it sets
InitFields ==
    [cumulativeInputDisplayString |-> <<"0">>,
     cumulativeOperationDisplayString |-> <<>>,
     cumulativeNumInputList |-> <<>>,
     lastCumulativeNumInputList |-> <<>>,
     cumulativeOperationList |-> <<>>,
     lastInputWasNum |-> FALSE,
     lastOperationWasEval |-> FALSE,
     skipAddingLastNumInputToOperation |-> FALSE,
     exc |-> "none"]

ErrorText == <<"E", "R", "R", "O", "R">>

Front(list) == SubSeq(list, 1, Len(list) - 1)

Last(list) == list[Len(list)]

\* ---------------------------------------------------------------- handlers
\* Each handler as a function of the fields it starts from.

\* clearAll that also puts the three flags back to their initial values (a
\* changed clearAllOf).
clearAllResetsFlags(c) ==
    [c EXCEPT !.cumulativeInputDisplayString = <<"0">>,
              !.cumulativeOperationDisplayString = <<>>,
              !.cumulativeNumInputList = <<>>,
              !.cumulativeOperationList = <<>>,
              !.lastInputWasNum = FALSE,
              !.lastOperationWasEval = FALSE,
              !.skipAddingLastNumInputToOperation = FALSE]

clearAllOf(c) ==
    [c EXCEPT !.cumulativeInputDisplayString = <<"0">>,
              !.cumulativeOperationDisplayString = <<>>,
              !.cumulativeNumInputList = <<>>,
              !.cumulativeOperationList = <<>>]

\* clearLast that takes a single element left in the list for the lone sign,
\* whatever it is (a changed clearLastOf).
clearLastDropsSingle(c) ==
    IF c.lastOperationWasEval /\ ~c.lastInputWasNum THEN c
    ELSE IF c.lastInputWasNum THEN
        IF Len(c.cumulativeNumInputList) > 0 THEN
            LET removed == Front(c.cumulativeNumInputList)
                left == IF Len(removed) = 1 THEN <<>> ELSE removed
            IN  [c EXCEPT !.cumulativeNumInputList = left,
                          !.cumulativeInputDisplayString =
                              IF Len(left) > 0 THEN Join(left) ELSE <<"0">>]
        ELSE c
    ELSE IF Len(c.cumulativeOperationList) = 0 THEN c
    ELSE
        LET ops == Front(c.cumulativeOperationList) IN
        [c EXCEPT !.cumulativeOperationList = ops,
                  !.cumulativeNumInputList = c.lastCumulativeNumInputList,
                  !.skipAddingLastNumInputToOperation = TRUE,
                  !.cumulativeOperationDisplayString = JoinSpace(ops)]

clearLastOf(c) ==
    IF c.lastOperationWasEval /\ ~c.lastInputWasNum THEN c
    ELSE IF c.lastInputWasNum THEN
        IF Len(c.cumulativeNumInputList) > 0 THEN
            LET removed == Front(c.cumulativeNumInputList)
                left == IF Len(removed) = 1 /\ removed[1] = <<"-">> THEN <<>> ELSE removed
            IN  [c EXCEPT !.cumulativeNumInputList = left,
                          !.cumulativeInputDisplayString =
                              IF Len(left) > 0 THEN Join(left) ELSE <<"0">>]
        ELSE c
    ELSE IF Len(c.cumulativeOperationList) = 0 THEN c
    ELSE
        LET ops == Front(c.cumulativeOperationList) IN
        [c EXCEPT !.cumulativeOperationList = ops,
                  !.cumulativeNumInputList = c.lastCumulativeNumInputList,
                  !.skipAddingLastNumInputToOperation = TRUE,
                  !.cumulativeOperationDisplayString = JoinSpace(ops)]

\* float(text): the float, or ValueError
FloatOf(text) ==
    LET neg == text # <<>> /\ text[1] = "-"
        body == IF neg THEN Tail(text) ELSE text
        j == IF body = <<>> THEN 1 ELSE NumberEnd(body, 1)
        k == DigitsEnd(body, 1)
        digits == SubSeq(body, 1, k - 1) \o SubSeq(body, k + 1, j - 1)
    IN  IF body = <<>> \/ j # Len(body) + 1 \/ digits = <<>> THEN Raised("ValueError")
        ELSE IF Len(digits) > 9 THEN Unmodelled
        ELSE LET x == MkFloat(DigitsValue(digits), TenTo(j - 1 - Min2(k, j - 1))) IN
             IF x.k = "Unmodelled" \/ (neg /\ x.n = 0) THEN Unmodelled
             ELSE IF neg THEN [x EXCEPT !.n = -x.n] ELSE x

percentageOf(c) ==
    IF c.cumulativeNumInputList = <<>> THEN c
    ELSE
        LET currentNumInputFloat == FloatOf(Join(c.cumulativeNumInputList))
            currentPercentFloat ==
                IF IsNumber(currentNumInputFloat)
                THEN Arith("/", currentNumInputFloat, IntV(100))
                ELSE currentNumInputFloat
            list == [c.cumulativeNumInputList EXCEPT ![1] = FloatStr(currentPercentFloat)]
        IN  IF ~IsNumber(currentPercentFloat) THEN [c EXCEPT !.exc = currentPercentFloat.k]
            ELSE [c EXCEPT !.cumulativeNumInputList = list,
                           !.cumulativeInputDisplayString = Join(list)]

invertOf(c) ==
    LET currentNumInput == Join(c.cumulativeNumInputList) IN
    IF currentNumInput = <<>> THEN c
    ELSE
        LET isPositive == IsNumeric(currentNumInput[1])
            flippedNumInput == IF isPositive THEN ListOf(<<"-">> \o currentNumInput)
                               ELSE ListOf(Tail(currentNumInput))
        IN  [c EXCEPT !.cumulativeNumInputList = flippedNumInput,
                      !.cumulativeInputDisplayString = Join(flippedNumInput)]

\* numberPressed with the list rebuilt from the new value alone instead of
\* appended to (a changed numberPressedOf).
numberPressedRestarts(c, value) ==
    [c EXCEPT !.cumulativeNumInputList = <<<<value>>>>,
              !.cumulativeInputDisplayString = <<value>>,
              !.lastInputWasNum = TRUE]

\* numberPressed that displays the pressed value alone, not the joined list
\* (a changed numberPressedOf).
numberPressedShowsValue(c, value) ==
    [c EXCEPT !.cumulativeNumInputList = Append(@, <<value>>),
              !.cumulativeInputDisplayString = <<value>>,
              !.lastInputWasNum = TRUE]

numberPressedOf(c, value) ==
    LET list == Append(c.cumulativeNumInputList, <<value>>) IN
    [c EXCEPT !.cumulativeNumInputList = list,
              !.cumulativeInputDisplayString = ReplacePower(Join(list)),
              !.lastInputWasNum = TRUE]

\* the end of the "value was '='" branch: the result is stored and shown
resultShown(c, currentCumulativeOperation, currentResult, shown) ==
    IF shown.k \notin {"int", "float", "str", "tuple"}
    THEN [c EXCEPT !.lastOperationWasEval = TRUE,
                   !.cumulativeOperationList = <<>>,
                   !.cumulativeNumInputList = <<ValueStr(currentResult)>>,
                   !.exc = shown.k]
    ELSE [c EXCEPT !.lastOperationWasEval = TRUE,
                   !.cumulativeOperationList = <<>>,
                   !.cumulativeNumInputList = <<ValueStr(currentResult)>>,
                   !.cumulativeInputDisplayString = IF shown.k = "tuple" THEN <<>> ELSE shown.s,
                   !.cumulativeOperationDisplayString = ReplacePower(currentCumulativeOperation)]

\* the try statement around eval, and what follows it
evaluated(c, currentCumulativeOperation, currentResult) ==
    IF currentResult.k = "SyntaxError"
    THEN [c EXCEPT !.cumulativeInputDisplayString = ErrorText]
    ELSE IF currentResult.k \notin {"int", "float", "tuple"}
    THEN [c EXCEPT !.exc = currentResult.k]
    ELSE resultShown(c, currentCumulativeOperation, currentResult,
                     roundToMaxDigits(currentResult))

\* eval of the joined and parenthesis-parsed operation
evaluating(c, currentCumulativeOperation) ==
    evaluated(c, currentCumulativeOperation, Eval(currentCumulativeOperation))

\* the "value was '='" branch, entered with the number already appended
evaluateOf(c) == evaluating(c, parseParentheses(Join(c.cumulativeOperationList)))

mathPressedOf(c, value) ==
    IF ~c.lastInputWasNum /\ ~c.lastOperationWasEval /\ Join(c.cumulativeNumInputList) # <<>>
    THEN
        IF c.cumulativeOperationList = <<>> THEN [c EXCEPT !.exc = "IndexError"]
        ELSE IF Last(c.cumulativeOperationList) = value THEN c
        ELSE
            LET cleared == clearLastOf(c)
                ops == Append(cleared.cumulativeOperationList, value)
            IN  [cleared EXCEPT !.skipAddingLastNumInputToOperation = FALSE,
                                !.cumulativeOperationList = ops,
                                !.cumulativeNumInputList = <<>>,
                                !.cumulativeInputDisplayString = <<>>,
                                !.cumulativeOperationDisplayString = JoinSpace(ops)]
    ELSE
        LET currentCumulativeNumInput == Join(c.cumulativeNumInputList)
            appended ==
                [c EXCEPT !.cumulativeOperationList =
                              IF ~c.skipAddingLastNumInputToOperation
                              THEN Append(c.cumulativeOperationList, currentCumulativeNumInput)
                              ELSE c.cumulativeOperationList,
                          !.skipAddingLastNumInputToOperation = FALSE,
                          !.lastInputWasNum = FALSE]
            ops == Append(appended.cumulativeOperationList, value)
        IN  IF currentCumulativeNumInput = <<>> THEN appended
            ELSE IF value # <<"=">> THEN
                [appended EXCEPT !.cumulativeOperationList = ops,
                                 !.lastCumulativeNumInputList = c.cumulativeNumInputList,
                                 !.cumulativeNumInputList = <<>>,
                                 !.lastOperationWasEval = FALSE,
                                 !.cumulativeInputDisplayString = <<>>,
                                 !.cumulativeOperationDisplayString = JoinSpace(ops)]
            ELSE evaluateOf(appended)

exponentiateOf(c) ==
    IF c.cumulativeNumInputList = <<>> THEN c
    ELSE
        LET list == Append(c.cumulativeNumInputList, <<"*", "*">>) IN
        [c EXCEPT !.cumulativeNumInputList = list,
                  !.cumulativeInputDisplayString = ReplacePower(Join(list))]

squareOf(c) ==
    IF c.cumulativeNumInputList = <<>> THEN c
    ELSE
        LET cumulativeInputStr == Join(c.cumulativeNumInputList) IN
        mathPressedOf([c EXCEPT !.cumulativeNumInputList =
                                    Append(@, <<"*">> \o cumulativeInputStr)],
                      <<"=">>)

\* math.log10(x) (base "10") and math.log(x) (base "None") at the arguments
\* followed here, as CPython on IEEE doubles gives them: the argument is the
\* float n/d, the value an integral float or the repr of the float
LogTable ==
    <<"10", 1, 1>> :> [k |-> "float", n |-> 0, d |-> 1] @@
    <<"10", 9, 1>> :> Double(<<"0", ".", "9", "5", "4", "2", "4", "2", "5", "0", "9", "4", "3", "9", "3", "2", "4", "9">>) @@
    <<"10", 10, 1>> :> [k |-> "float", n |-> 1, d |-> 1] @@
    <<"10", 11, 1>> :> Double(<<"1", ".", "0", "4", "1", "3", "9", "2", "6", "8", "5", "1", "5", "8", "2", "2", "5">>) @@
    <<"10", 19, 1>> :> Double(<<"1", ".", "2", "7", "8", "7", "5", "3", "6", "0", "0", "9", "5", "2", "8", "2", "8", "9">>) @@
    <<"10", 90, 1>> :> Double(<<"1", ".", "9", "5", "4", "2", "4", "2", "5", "0", "9", "4", "3", "9", "3", "2", "4", "8">>) @@
    <<"10", 91, 1>> :> Double(<<"1", ".", "9", "5", "9", "0", "4", "1", "3", "9", "2", "3", "2", "1", "0", "9", "3", "6">>) @@
    <<"10", 99, 1>> :> Double(<<"1", ".", "9", "9", "5", "6", "3", "5", "1", "9", "4", "5", "9", "7", "5", "5">>) @@
    <<"10", 100, 1>> :> [k |-> "float", n |-> 2, d |-> 1] @@
    <<"10", 1, 10>> :> [k |-> "float", n |-> -1, d |-> 1] @@
    <<"10", 9, 10>> :> Double(<<"-", "0", ".", "0", "4", "5", "7", "5", "7", "4", "9", "0", "5", "6", "0", "6", "7", "5", "1", "1", "5">>) @@
    <<"None", 1, 1>> :> [k |-> "float", n |-> 0, d |-> 1] @@
    <<"None", 9, 1>> :> Double(<<"2", ".", "1", "9", "7", "2", "2", "4", "5", "7", "7", "3", "3", "6", "2", "1", "9", "6">>) @@
    <<"None", 10, 1>> :> Double(<<"2", ".", "3", "0", "2", "5", "8", "5", "0", "9", "2", "9", "9", "4", "0", "4", "6">>) @@
    <<"None", 11, 1>> :> Double(<<"2", ".", "3", "9", "7", "8", "9", "5", "2", "7", "2", "7", "9", "8", "3", "7", "0", "7">>) @@
    <<"None", 19, 1>> :> Double(<<"2", ".", "9", "4", "4", "4", "3", "8", "9", "7", "9", "1", "6", "6", "4", "4", "0", "3">>) @@
    <<"None", 90, 1>> :> Double(<<"4", ".", "4", "9", "9", "8", "0", "9", "6", "7", "0", "3", "3", "0", "2", "6", "5">>) @@
    <<"None", 91, 1>> :> Double(<<"4", ".", "5", "1", "0", "8", "5", "9", "5", "0", "6", "5", "1", "6", "8", "5">>) @@
    <<"None", 99, 1>> :> Double(<<"4", ".", "5", "9", "5", "1", "1", "9", "8", "5", "0", "1", "3", "4", "5", "9">>) @@
    <<"None", 100, 1>> :> Double(<<"4", ".", "6", "0", "5", "1", "7", "0", "1", "8", "5", "9", "8", "8", "0", "9", "2">>) @@
    <<"None", 1, 10>> :> Double(<<"-", "2", ".", "3", "0", "2", "5", "8", "5", "0", "9", "2", "9", "9", "4", "0", "4", "5", "5">>) @@
    <<"None", 9, 10>> :> Double(<<"-", "0", ".", "1", "0", "5", "3", "6", "0", "5", "1", "5", "6", "5", "7", "8", "2", "6", "2", "8">>)

\* logFunc(currentNumInputFloat) of what float() gave
LogOf(base, x) ==
    IF x.k # "float" THEN x
    ELSE IF x.n <= 0 THEN Raised("ValueError")
    ELSE IF <<base, x.n, x.d>> \in DOMAIN LogTable THEN LogTable[<<base, x.n, x.d>>]
    ELSE Unmodelled

\* the end of logarithms: the rounded result is stored and shown
logRounded(c, logResult) ==
    IF logResult.k = "ValueError" THEN [c EXCEPT !.cumulativeInputDisplayString = ErrorText]
    ELSE IF logResult.k \notin {"int", "float", "str"} THEN [c EXCEPT !.exc = "Unmodelled"]
    ELSE [c EXCEPT !.cumulativeNumInputList = [@ EXCEPT ![1] = logResult.s],
                   !.cumulativeInputDisplayString = logResult.s]

\* logarithms whose except clause also empties the number input (a changed
\* logTaken)
logTakenClearsInput(c, logValue) ==
    IF logValue.k = "ValueError"
    THEN [c EXCEPT !.cumulativeInputDisplayString = ErrorText,
                   !.cumulativeNumInputList = <<>>]
    ELSE IF logValue.k \notin {"float", "double"} THEN [c EXCEPT !.exc = "Unmodelled"]
    ELSE logRounded(c, roundToMaxDigits(logValue))

\* the try statement of logarithms, and what follows it
logTaken(c, logValue) ==
    IF logValue.k = "ValueError" THEN [c EXCEPT !.cumulativeInputDisplayString = ErrorText]
    ELSE IF logValue.k \notin {"float", "double"} THEN [c EXCEPT !.exc = "Unmodelled"]
    ELSE logRounded(c, roundToMaxDigits(logValue))

logarithmsOf(c, base) ==
    IF c.cumulativeNumInputList = <<>> THEN c
    ELSE logTaken(c, LogOf(base, FloatOf(Join(c.cumulativeNumInputList))))

\* ----------------------------------------------------------------- actions
\* What the handlers are called with: NumberButton(text), MathButton(operator)
Plus == <<"+">>
Minus == <<"-">>
Times == <<"*">>
Divide == <<"/">>
Equals == <<"=">>

\* A handler has run on event e and left the fields c.
Handled(e, c) ==
    /\ c.exc # "Unmodelled"
    /\ cumulativeInputDisplayString' = c.cumulativeInputDisplayString
    /\ cumulativeOperationDisplayString' = c.cumulativeOperationDisplayString
    /\ cumulativeNumInputList' = c.cumulativeNumInputList
    /\ lastCumulativeNumInputList' = c.lastCumulativeNumInputList
    /\ cumulativeOperationList' = c.cumulativeOperationList
    /\ lastInputWasNum' = c.lastInputWasNum
    /\ lastOperationWasEval' = c.lastOperationWasEval
    /\ skipAddingLastNumInputToOperation' = c.skipAddingLastNumInputToOperation
    /\ uncaught' = c.exc
    /\ trace' = Append(trace, e)
    /\ UNCHANGED call

clearAll == Handled("clearAll", clearAllOf(Fields))

clearLast == Handled("clearLast", clearLastOf(Fields))

percentage == Handled("percentage", percentageOf(Fields))

invert == Handled("invert", invertOf(Fields))

numberPressed(value) == Handled(value, numberPressedOf(Fields, value))

mathPressed(value) == Handled(value[1], mathPressedOf(Fields, value))

exponentiate == Handled("exponentiate", exponentiateOf(Fields))

square == Handled("square", squareOf(Fields))

\* base is "10" for logarithms(10), "None" for logarithms()
logarithms(base) ==
    Handled(IF base = "10" THEN "log" ELSE "ln", logarithmsOf(Fields, base))

NoCall == [f |-> "none", arg |-> <<>>, done |-> TRUE, ret |-> <<>>]

InitData ==
    /\ cumulativeInputDisplayString = InitFields.cumulativeInputDisplayString
    /\ cumulativeOperationDisplayString = InitFields.cumulativeOperationDisplayString
    /\ cumulativeNumInputList = InitFields.cumulativeNumInputList
    /\ lastCumulativeNumInputList = InitFields.lastCumulativeNumInputList
    /\ cumulativeOperationList = InitFields.cumulativeOperationList
    /\ lastInputWasNum = InitFields.lastInputWasNum
    /\ lastOperationWasEval = InitFields.lastOperationWasEval
    /\ skipAddingLastNumInputToOperation = InitFields.skipAddingLastNumInputToOperation
    /\ uncaught = "none"
    /\ trace = <<>>

Init == InitData /\ call = NoCall

\* The handler an event label stands for, on the fields c.
ApplyEvent(c, e) ==
    LET b == [c EXCEPT !.exc = "none"] IN
    IF e = "clearAll" THEN clearAllOf(b)
    ELSE IF e = "clearLast" THEN clearLastOf(b)
    ELSE IF e = "percentage" THEN percentageOf(b)
    ELSE IF e = "invert" THEN invertOf(b)
    ELSE IF e = "exponentiate" THEN exponentiateOf(b)
    ELSE IF e = "square" THEN squareOf(b)
    ELSE IF e = "log" THEN logarithmsOf(b, "10")
    ELSE IF e = "ln" THEN logarithmsOf(b, "None")
    ELSE IF e \in {"+", "-", "*", "/", "="} THEN mathPressedOf(b, <<e>>)
    ELSE numberPressedOf(b, e)

RECURSIVE Replay(_)
\* The fields after the events t, handled from the start.
Replay(t) == IF t = <<>> THEN InitFields ELSE ApplyEvent(Replay(Front(t)), Last(t))

\* -------------------------------------------------------- specifications
\* Spec: every handler, on a small keyboard.
Keys == {"5", "."}
Operators == {Plus, Times, Equals}

Next ==
    /\ Len(trace) < MaxTrace
    /\ \/ \E value \in Keys : numberPressed(value)
       \/ \E value \in Operators : mathPressed(value)
       \/ clearLast
       \/ clearAll
       \/ invert
       \/ percentage
       \/ exponentiate
       \/ square

Spec == Init /\ [][Next]_vars

\* SpecArith: numbers and operators only, on more digits.
ArithKeys == {"0", "1", "2", "5", "8"}
ArithOperators == {Plus, Divide, Equals}

NextArith ==
    /\ Len(trace) < MaxTrace
    /\ \/ \E value \in ArithKeys : numberPressed(value)
       \/ \E value \in ArithOperators : mathPressed(value)

SpecArith == Init /\ [][NextArith]_vars

\* SpecEdit: numbers, operators, backspace and clear.
EditKeys == {"3", "5"}
EditOperators == {Plus, Times, Equals}

NextEdit ==
    /\ Len(trace) < MaxEditTrace
    /\ \/ \E value \in EditKeys : numberPressed(value)
       \/ \E value \in EditOperators : mathPressed(value)
       \/ clearLast
       \/ clearAll

SpecEdit == Init /\ [][NextEdit]_vars

\* SpecLog: logarithms of typed numbers.
LogKeys == {"0", "1", "9", "."}
LogOperators == {Plus, Equals}
Bases == {"10", "None"}

NextLog ==
    /\ Len(trace) < MaxLogTrace
    /\ \/ \E value \in LogKeys : numberPressed(value)
       \/ \E value \in LogOperators : mathPressed(value)
       \/ \E base \in Bases : logarithms(base)
       \/ percentage
       \/ invert
       \/ clearLast

SpecLog == Init /\ [][NextLog]_vars

\* SpecParen: an expression with parentheses is typed, then "=".
ParenKeys == {"2", "3", "4", "(", ")"}

NextParen ==
    /\ Len(trace) < MaxParenTrace
    /\ \/ \E value \in ParenKeys : numberPressed(value)
       \/ mathPressed(Equals)

SpecParen == Init /\ [][NextParen]_vars

\* SpecNormalizer: parseParentheses on its own, on every short expression.
ExprChars == {"2", "3", "4", "(", ")", "*"}

Expressions == UNION {[1..n -> ExprChars] : n \in 0..MaxExprLen}

InitNormalizer ==
    /\ InitData
    /\ call \in {[f |-> "parseParentheses", arg |-> x, done |-> FALSE, ret |-> <<>>] :
                    x \in Expressions}

Normalize ==
    /\ ~call.done
    /\ call' = [call EXCEPT !.ret = parseParentheses(call.arg), !.done = TRUE]
    /\ UNCHANGED <<data, uncaught, trace>>

SpecNormalizer == InitNormalizer /\ [][Normalize]_vars

\* SpecSquare: numbers, the four operators and square.
SquareKeys == {"2", "8"}
SquareOperators == {Plus, Minus, Times, Divide, Equals}

NextSquare ==
    /\ Len(trace) < MaxTrace
    /\ \/ \E value \in SquareKeys : numberPressed(value)
       \/ \E value \in SquareOperators : mathPressed(value)
       \/ square

SpecSquare == Init /\ [][NextSquare]_vars

\* SpecRound: roundToMaxDigits on its own, on non-integral floats given by
\* the text of their repr: an optional sign, an integer part of up to
\* MaxIntLen digits and a fraction of eighths, which a double holds exactly.
IntParts == UNION {[1..n -> {"1", "9"}] : n \in 1..MaxIntLen}

Fractions == {<<"2", "5">>, <<"7", "5">>, <<"1", "2", "5">>, <<"8", "7", "5">>}

Floats ==
    {Double(sign \o ip \o <<".">> \o frac) :
        sign \in {<<>>, <<"-">>}, ip \in IntParts, frac \in Fractions}

InitRound ==
    /\ InitData
    /\ call \in {[f |-> "roundToMaxDigits", arg |-> x, done |-> FALSE, ret |-> <<>>] :
                    x \in Floats}

Round ==
    /\ ~call.done
    /\ roundToMaxDigits(call.arg).k # "Unmodelled"
    /\ call' = [call EXCEPT !.ret = roundToMaxDigits(call.arg), !.done = TRUE]
    /\ UNCHANGED <<data, uncaught, trace>>

SpecRound == InitRound /\ [][Round]_vars

\* ------------------------------------------------------------------ claims
Before == Replay(Front(trace))

EndsWith(t, suffix) ==
    Len(t) >= Len(suffix) /\ SubSeq(t, Len(t) - Len(suffix) + 1, Len(t)) = suffix

\* C1, as amended: from the start, the events 1, 2, +, 8, = end with the
\* input display "20" and the operation display "12+8", the evaluated
\* expression as it was joined for eval, without spaces.
C1_TwelvePlusEight ==
    trace = <<"1", "2", "+", "8", "=">> =>
        /\ cumulativeInputDisplayString = <<"2", "0">>
        /\ cumulativeOperationDisplayString = <<"1", "2", "+", "8">>

\* C1 as stated: the same events end with the operation display "12 + 8",
\* with spaces around the operator.
C1_AsStated ==
    trace = <<"1", "2", "+", "8", "=">> =>
        /\ cumulativeInputDisplayString = <<"2", "0">>
        /\ cumulativeOperationDisplayString = <<"1", "2", " ", "+", " ", "8">>

C1_Witness ==
    /\ trace = <<"1", "2", "+", "8", "=">>
    /\ uncaught = "none"
    /\ lastOperationWasEval

\* C2: after 5, /, 0, = the input display is the error sentinel and the
\* operation list is what it was before the = press.
C2_DivisionByZero ==
    trace = <<"5", "/", "0", "=">> =>
        /\ cumulativeInputDisplayString = ErrorText
        /\ cumulativeOperationList = Before.cumulativeOperationList

\* C3: after a number and two + presses in a row the operation list is
\* exactly [number, +].
C3_DuplicateOperator ==
    \A n \in 1..(Len(trace) - 2) :
        (/\ Len(trace) = n + 2
         /\ \A i \in 1..n : trace[i] \in Digits
         /\ trace[n + 1] = "+"
         /\ trace[n + 2] = "+")
        => cumulativeOperationList = <<SubSeq(trace, 1, n), Plus>>

\* The operator tokens of the operation list.
OperatorTokens == {Plus, Minus, Times, Divide}

\* C4: the operation list never ends in two consecutive operator tokens.
C4_NoTwoOperators ==
    Len(cumulativeOperationList) >= 2 =>
        ~(/\ Last(cumulativeOperationList) \in OperatorTokens
          /\ cumulativeOperationList[Len(cumulativeOperationList) - 1] \in OperatorTokens)

\* An "=" press on the fields c reaches eval (it takes neither the
\* operator-replacing branch nor the empty-input exit).
EqualsEvaluates(c) ==
    /\ ~(~c.lastInputWasNum /\ ~c.lastOperationWasEval /\ Join(c.cumulativeNumInputList) # <<>>)
    /\ Join(c.cumulativeNumInputList) # <<>>

\* ... and eval raises on the expression it is given.
EqualsRejected(c) ==
    /\ EqualsEvaluates(c)
    /\ Eval(parseParentheses(Join(
           IF c.skipAddingLastNumInputToOperation THEN c.cumulativeOperationList
           ELSE Append(c.cumulativeOperationList, Join(c.cumulativeNumInputList)))
         )).k \in {"SyntaxError", "ZeroDivisionError", "TypeError"}

SameCommitted(c) ==
    /\ cumulativeOperationList = c.cumulativeOperationList
    /\ lastCumulativeNumInputList = c.lastCumulativeNumInputList
    /\ lastInputWasNum = c.lastInputWasNum
    /\ lastOperationWasEval = c.lastOperationWasEval
    /\ skipAddingLastNumInputToOperation = c.skipAddingLastNumInputToOperation

\* C5: when an "=" press fails to evaluate, the input display is the error
\* sentinel and the operation list, the undo snapshot and the three flags
\* are what they were before the press, also after a second "=" press.
C5_FailedEqualsKeepsState ==
    /\ (/\ trace # <<>>
        /\ Last(trace) = "="
        /\ EqualsRejected(Before))
       => (cumulativeInputDisplayString = ErrorText /\ SameCommitted(Before))
    /\ (/\ EndsWith(trace, <<"=", "=">>)
        /\ EqualsRejected(Replay(SubSeq(trace, 1, Len(trace) - 2))))
       => (/\ cumulativeInputDisplayString = ErrorText
           /\ SameCommitted(Replay(SubSeq(trace, 1, Len(trace) - 2))))

\* C6: once a failed evaluation has put the error sentinel on the input
\* display, one Backspace or one ClearAll takes the sentinel off it, and a
\* following digit a, operator, digit b, "=" displays the value of a op b.
C6_RecoveryAfterError ==
    \A i \in 1..Len(trace) :
        (/\ trace[i] = "="
         /\ EqualsRejected(Replay(SubSeq(trace, 1, i - 1)))
         /\ Replay(SubSeq(trace, 1, i)).cumulativeInputDisplayString = ErrorText
         /\ i < Len(trace)
         /\ trace[i + 1] \in {"clearLast", "clearAll"})
        =>
        /\ Len(trace) = i + 1 => cumulativeInputDisplayString # ErrorText
        /\ (/\ Len(trace) = i + 5
            /\ trace[i + 2] \in Digits
            /\ trace[i + 3] \in {"+", "-", "*", "/"}
            /\ trace[i + 4] \in Digits
            /\ trace[i + 5] = "="
            /\ IsNumber(Arith(trace[i + 3], IntV(DigitValue(trace[i + 2])),
                              IntV(DigitValue(trace[i + 4])))))
           => cumulativeInputDisplayString =
                  roundToMaxDigits(Arith(trace[i + 3], IntV(DigitValue(trace[i + 2])),
                                         IntV(DigitValue(trace[i + 4])))).s

\* C7: "2(3)" is normalized to "2*(3)" and "=" on it displays 6; "(3)(4)"
\* is normalized to "(3)*(4)" and "=" on it displays 12.
C7_ImplicitMultiplication ==
    /\ trace = <<"2", "(", "3", ")", "=">> =>
           /\ cumulativeOperationDisplayString = <<"2", "*", "(", "3", ")">>
           /\ cumulativeInputDisplayString = <<"6">>
    /\ trace = <<"(", "3", ")", "(", "4", ")", "=">> =>
           /\ cumulativeOperationDisplayString = <<"(", "3", ")", "*", "(", "4", ")">>
           /\ cumulativeInputDisplayString = <<"1", "2">>

\* C8: parseParentheses is idempotent: applied to its own result it returns
\* that result.
C8_NormalizerIdempotent ==
    (call.f = "parseParentheses" /\ call.done) => parseParentheses(call.ret) = call.ret

C8_Witness ==
    /\ call.f = "parseParentheses"
    /\ call.done
    /\ call.arg = <<"2", "(", "3", ")", "4">>
    /\ call.ret = <<"2", "*", "(", "3", ")", "*", "4">>

\* A fragment as it is typed: an optional leading sign, then digits and
\* decimal points, a digit among them.
TypedFragment(x) ==
    LET body == IF x # <<>> /\ x[1] = "-" THEN Tail(x) ELSE x IN
    /\ \A i \in 1..Len(body) : body[i] \in Digits \cup {"."}
    /\ \E i \in 1..Len(body) : body[i] \in Digits

\* C9: invert applied twice to a typed fragment x leaves the number input
\* and the input display equal to x.
C9_InvertTwice ==
    LET pre == Replay(SubSeq(trace, 1, Len(trace) - 2))
        x == Join(pre.cumulativeNumInputList)
    IN  (EndsWith(trace, <<"invert", "invert">>) /\ TypedFragment(x))
        => (Join(cumulativeNumInputList) = x /\ cumulativeInputDisplayString = x)

\* The last n events are n number buttons followed by n backspaces.
TypedAndErased(n) ==
    /\ n >= 1
    /\ Len(trace) >= 2 * n
    /\ \A i \in (Len(trace) - 2 * n + 1)..(Len(trace) - n) : trace[i] \in Digits \cup {"."}
    /\ \A i \in (Len(trace) - n + 1)..Len(trace) : trace[i] = "clearLast"

\* C10: n number buttons and then n backspaces return the number input to
\* what it was before them; when that was empty the input display shows "0".
C10_BackspaceUndoesTyping ==
    \A n \in 1..Len(trace) :
        TypedAndErased(n) =>
            LET pre == Replay(SubSeq(trace, 1, Len(trace) - 2 * n)) IN
            /\ cumulativeNumInputList = pre.cumulativeNumInputList
            /\ pre.cumulativeNumInputList = <<>> => cumulativeInputDisplayString = <<"0">>

C10_Witness ==
    /\ TypedAndErased(2)
    /\ trace[1] = "5"
    /\ cumulativeNumInputList = <<<<"5">>>>

\* The last n events are digit presses made on an empty number input.
DigitsOnEmpty(n) ==
    /\ n >= 1
    /\ Len(trace) >= n
    /\ \A i \in (Len(trace) - n + 1)..Len(trace) : trace[i] \in Digits
    /\ Replay(SubSeq(trace, 1, Len(trace) - n)).cumulativeNumInputList = <<>>

\* C11: digits typed one after another on an empty number input: after each
\* press the input display is the concatenation of the digits typed so far.
C11_DisplayIsTyped ==
    \A n \in 1..Len(trace) :
        DigitsOnEmpty(n) =>
            cumulativeInputDisplayString = SubSeq(trace, Len(trace) - n + 1, Len(trace))

C11_Witness ==
    /\ DigitsOnEmpty(3)
    /\ EndsWith(trace, <<"+", "3", "5", "3">>)
    /\ cumulativeInputDisplayString = <<"3", "5", "3">>

\* C12, as amended: 9 and then the logarithm of base 10 display
\* "0.95424251": the result is rendered with 8 fractional digits.
C12_LogOfNine ==
    trace = <<"9", "log">> =>
        cumulativeInputDisplayString = <<"0", ".", "9", "5", "4", "2", "4", "2", "5", "1">>

\* C12 as stated: 9 and then the logarithm of base 10 display "0.954242509",
\* 9 fractional digits.
C12_AsStated ==
    trace = <<"9", "log">> =>
        cumulativeInputDisplayString = <<"0", ".", "9", "5", "4", "2", "4", "2", "5", "0", "9">>

C12_Witness ==
    /\ trace = <<"9", "log">>
    /\ uncaught = "none"
    /\ cumulativeNumInputList = <<cumulativeInputDisplayString>>
    /\ Len(cumulativeInputDisplayString) = 10

\* C13: a number, an operator op1 and then a different operator op2 with no
\* digit in between leave the operation list [number, op2], and the
\* operation display shows the number and op2.
C13_OperatorReplaced ==
    \A n \in 1..(Len(trace) - 2) :
        (/\ Len(trace) = n + 2
         /\ \A i \in 1..n : trace[i] \in Digits
         /\ <<trace[n + 1]>> \in OperatorTokens
         /\ <<trace[n + 2]>> \in OperatorTokens
         /\ trace[n + 1] # trace[n + 2])
        => /\ cumulativeOperationList = <<SubSeq(trace, 1, n), <<trace[n + 2]>>>>
           /\ cumulativeOperationDisplayString = SubSeq(trace, 1, n) \o <<" ", trace[n + 2]>>

\* C14: a number n, an operator, a backspace over that operator and then an
\* operator op leave the operation list [n, op].
C14_RestoredOnce ==
    \A n \in 1..(Len(trace) - 3) :
        (/\ Len(trace) = n + 3
         /\ \A i \in 1..n : trace[i] \in Digits
         /\ <<trace[n + 1]>> \in OperatorTokens
         /\ trace[n + 2] = "clearLast"
         /\ <<trace[n + 3]>> \in OperatorTokens)
        => cumulativeOperationList = <<SubSeq(trace, 1, n), <<trace[n + 3]>>>>

\* Every data field and flag is what it is in the fields c.
SameData(c) ==
    /\ SameCommitted(c)
    /\ cumulativeNumInputList = c.cumulativeNumInputList
    /\ cumulativeInputDisplayString = c.cumulativeInputDisplayString
    /\ cumulativeOperationDisplayString = c.cumulativeOperationDisplayString

\* C15: an operator or "=" pressed on an empty number input and an empty
\* operation list changes nothing: the operation list stays empty and every
\* other field is what it was.
C15_EmptyPressIgnored ==
    (/\ trace # <<>>
     /\ <<Last(trace)>> \in OperatorTokens \cup {Equals}
     /\ Join(Before.cumulativeNumInputList) = <<>>
     /\ Before.cumulativeOperationList = <<>>)
    => (cumulativeOperationList = <<>> /\ SameData(Before))

\* C16: after clearAll and after a successful "=" (one that reaches eval and
\* displays its value) the undo snapshot is empty.
C16_SnapshotCleared ==
    (/\ trace # <<>>
     /\ \/ Last(trace) = "clearAll"
        \/ /\ Last(trace) = "="
           /\ EqualsEvaluates(Before)
           /\ uncaught = "none"
           /\ cumulativeInputDisplayString # ErrorText)
    => lastCumulativeNumInputList = <<>>

\* C17: clearAll empties the number input and the operation list, sets the
\* input display to "0" and the operation display to the empty string, and
\* leaves the three flags as they were.
C17_ClearAllResets ==
    (trace # <<>> /\ Last(trace) = "clearAll") =>
        /\ cumulativeNumInputList = <<>>
        /\ cumulativeOperationList = <<>>
        /\ cumulativeInputDisplayString = <<"0">>
        /\ cumulativeOperationDisplayString = <<>>
        /\ lastInputWasNum = Before.lastInputWasNum
        /\ lastOperationWasEval = Before.lastOperationWasEval
        /\ skipAddingLastNumInputToOperation = Before.skipAddingLastNumInputToOperation

C17_Witness ==
    /\ trace # <<>>
    /\ Last(trace) = "clearAll"
    /\ Before.cumulativeNumInputList # <<>>
    /\ Before.cumulativeOperationList # <<>>
    /\ cumulativeNumInputList = <<>>
    /\ cumulativeOperationList = <<>>
    /\ lastInputWasNum
    /\ skipAddingLastNumInputToOperation

\* C18: after clearAll the displays follow the events as they do from the
\* initial state: the events handled since a clearAll leave the input
\* display and the operation display they leave when handled from the start.
C18_ClearAllIsFresh ==
    \A i \in 1..Len(trace) :
        trace[i] = "clearAll" =>
            /\ cumulativeInputDisplayString =
                   Replay(SubSeq(trace, i + 1, Len(trace))).cumulativeInputDisplayString
            /\ cumulativeOperationDisplayString =
                   Replay(SubSeq(trace, i + 1, Len(trace))).cumulativeOperationDisplayString

\* C19: when an operator or "=" press takes the branch for a press that
\* follows a non-evaluating operator, the operation list is not empty and
\* the handler does not abort on reading its last element.
C19_LastElementExists ==
    /\ (/\ ~lastInputWasNum
        /\ ~lastOperationWasEval
        /\ Join(cumulativeNumInputList) # <<>>)
       => cumulativeOperationList # <<>>
    /\ uncaught # "IndexError"

\* An operator press on the fields c commits through lines 465-487: it does
\* not take the operator-replacing branch and the number input is not empty.
CommitsNormally(c) ==
    /\ ~(~c.lastInputWasNum /\ ~c.lastOperationWasEval /\ Join(c.cumulativeNumInputList) # <<>>)
    /\ Join(c.cumulativeNumInputList) # <<>>

\* C20: when an operator press commits through the normal path, the
\* operation list ends with the text the number input had before the press
\* and then the operator.
C20_CommittedOperand ==
    (/\ trace # <<>>
     /\ <<Last(trace)>> \in OperatorTokens
     /\ CommitsNormally(Before))
    => /\ Len(cumulativeOperationList) >= 2
       /\ Last(cumulativeOperationList) = <<Last(trace)>>
       /\ cumulativeOperationList[Len(cumulativeOperationList) - 1] =
              Join(Before.cumulativeNumInputList)

\* An "=" press has just reached eval and displayed its value.
EqualsSucceeded ==
    /\ trace # <<>>
    /\ Last(trace) = "="
    /\ EqualsEvaluates(Before)
    /\ uncaught = "none"
    /\ cumulativeInputDisplayString # ErrorText

\* C21: after a successful "=" the operation list is empty,
\* lastOperationWasEval is true and the number input is the one text that
\* the input display shows.
C21_ResultIsDisplayed ==
    EqualsSucceeded =>
        /\ cumulativeOperationList = <<>>
        /\ lastOperationWasEval
        /\ cumulativeNumInputList = <<cumulativeInputDisplayString>>

\* The number input of the fields c is a fragment as it is typed, one
\* character per element.
TypedInput(c) ==
    /\ TypedFragment(Join(c.cumulativeNumInputList))
    /\ \A i \in 1..Len(c.cumulativeNumInputList) : Len(c.cumulativeNumInputList[i]) = 1

\* C22: after percentage, and after a logarithm that does not fail, on a
\* typed fragment of one or more characters, the number input is one
\* element, the text of the result, and it is what the input display shows.
C22_FragmentReplaced ==
    (/\ trace # <<>>
     /\ Last(trace) \in {"percentage", "log", "ln"}
     /\ TypedInput(Before)
     /\ uncaught = "none"
     /\ cumulativeInputDisplayString # ErrorText)
    => /\ Len(cumulativeNumInputList) = 1
       /\ cumulativeNumInputList[1] = cumulativeInputDisplayString

\* The text s has a "(" right after a numeric character or a ")" right
\* before one.
ParenthBesideNumeric(s) ==
    \E i \in 1..(Len(s) - 1) :
        \/ IsNumeric(s[i]) /\ s[i + 1] = "("
        \/ s[i] = ")" /\ IsNumeric(s[i + 1])

\* C23: the result of parseParentheses has no "(" right after a numeric
\* character and no ")" right before one.
C23_NoParenthBesideNumeric ==
    (call.f = "parseParentheses" /\ call.done) => ~ParenthBesideNumeric(call.ret)

\* roundToMaxDigits has been applied, on its own, to a non-integral float
\* whose str(int(x)) is n characters long.
Rounded(n) ==
    /\ call.f = "roundToMaxDigits"
    /\ call.done
    /\ Len(TruncText(call.arg.s)) = n

\* C24: for a non-integral float whose integer part, sign included, is at
\* most 9 characters long, the string roundToMaxDigits returns is at most 9
\* characters long.
C24_WithinNineCharacters ==
    \A n \in 1..9 : Rounded(n) => Len(call.ret.s) <= 9

\* The number of digits after the "." in the text s (0 without a ".").
FractionLen(s) == IF \E i \in 1..Len(s) : s[i] = "." THEN Len(s) - PointAt(s) ELSE 0

\* C25: when roundToMaxDigits renders a non-integral float of more than 9
\* characters again, it does not fail, and the text has max(0, 9 - n)
\* fractional digits, n the length of the integer part, sign included.
C25_PrecisionClamped ==
    \A n \in 1..(MaxIntLen + 1) :
        (Rounded(n) /\ Len(call.arg.s) > 9) =>
            /\ call.ret.k = "str"
            /\ FractionLen(call.ret.s) = (IF n < 9 THEN 9 - n ELSE 0)

\* How many "." the text s has.
PointCount(s) == Cardinality({i \in 1..Len(s) : s[i] = "."})

\* C26: the number input never has more than one decimal point.
C26_OneDecimalPoint == PointCount(Join(cumulativeNumInputList)) <= 1

\* The number input of the fields c reads as a float that is zero or
\* negative.
NonPositiveInput(c) ==
    /\ c.cumulativeNumInputList # <<>>
    /\ FloatOf(Join(c.cumulativeNumInputList)).k = "float"
    /\ FloatOf(Join(c.cumulativeNumInputList)).n <= 0

\* C27: a logarithm of a number input that is zero or negative puts the
\* error sentinel on the input display and leaves the number input, the
\* operation list, the undo snapshot and the three flags as they were.
C27_LogOfNonPositive ==
    (/\ trace # <<>>
     /\ Last(trace) \in {"log", "ln"}
     /\ NonPositiveInput(Before))
    => /\ cumulativeInputDisplayString = ErrorText
       /\ cumulativeNumInputList = Before.cumulativeNumInputList
       /\ SameCommitted(Before)
       /\ uncaught = "none"

C27_Witness ==
    /\ trace # <<>>
    /\ Last(trace) = "ln"
    /\ NonPositiveInput(Before)
    /\ Before.cumulativeNumInputList[1] = <<"-">>
    /\ Len(Before.cumulativeOperationList) = 2
    /\ cumulativeInputDisplayString = ErrorText

\* C28: with a digit a and an operator committed and a digit b typed, square
\* displays the value of a op (b * b): for 8, /, 2 it displays 2.
C28_SquareIsOneOperand ==
    (/\ Len(trace) = 4
     /\ trace[1] \in Digits
     /\ trace[2] \in {"+", "-", "*", "/"}
     /\ trace[3] \in Digits
     /\ trace[4] = "square"
     /\ IsNumber(Arith(trace[2], IntV(DigitValue(trace[1])),
                       IntV(DigitValue(trace[3]) * DigitValue(trace[3])))))
    => cumulativeInputDisplayString =
           roundToMaxDigits(Arith(trace[2], IntV(DigitValue(trace[1])),
                                  IntV(DigitValue(trace[3]) * DigitValue(trace[3])))).s
====
